---- MODULE Spec2Model ----
(***************************************************************************)
(* Model of the ChronoMaster date engine: DateManipulator (parseDateString, *)
(* addHours, formatDate, convertTimezone), APIService.fallbackCalculation   *)
(* and the standalone add12Hours, as driven by the page's input fields.     *)
(*                                                                          *)
(* A JavaScript string is a sequence of one-character strings.  A           *)
(* JavaScript number is a record [nan, v]: NaN, or the integer v.  A Date   *)
(* is a record [nan, day, min]: an Invalid Date, or day `day' since         *)
(* 1970-01-01 and minute `min' of that day.  The local zone of the runtime  *)
(* is taken to have a fixed offset (no daylight-saving transition), so      *)
(* local time and the time value differ by a constant, taken as 0.          *)
(***************************************************************************)
EXTENDS Integers, Sequences, FiniteSets, TLC

(***************************************************************************)
(* Numbers                                                                  *)
(***************************************************************************)
NaN == [nan |-> TRUE, v |-> 0]

Num(n) == [nan |-> FALSE, v |-> n]

\* a + b of JavaScript: NaN when either operand is NaN
NumAdd(a, b) == IF a.nan \/ b.nan THEN NaN ELSE Num(a.v + b.v)

\* a - b of JavaScript
NumSub(a, b) == IF a.nan \/ b.nan THEN NaN ELSE Num(a.v - b.v)

\* a < b of JavaScript: false when either operand is NaN
NumLt(a, b) == ~a.nan /\ ~b.nan /\ a.v < b.v

\* a > b of JavaScript: false when either operand is NaN
NumGt(a, b) == ~a.nan /\ ~b.nan /\ a.v > b.v

\* a === n for an integer literal n
NumIs(a, n) == ~a.nan /\ a.v = n

(***************************************************************************)
(* Strings                                                                  *)
(***************************************************************************)
DigitChars == <<"0", "1", "2", "3", "4", "5", "6", "7", "8", "9">>

IsDigit(c) == \E i \in 1..10 : DigitChars[i] = c

DigitVal(c) == (CHOOSE i \in 1..10 : DigitChars[i] = c) - 1

IsSpace(c) == c = " "

RECURSIVE NatToString(_)
NatToString(n) ==
    IF n < 10 THEN <<DigitChars[n + 1]>>
    ELSE NatToString(n \div 10) \o <<DigitChars[(n % 10) + 1]>>

\* Number.prototype.toString / template-literal conversion of a number
NumToString(a) ==
    IF a.nan THEN <<"N", "a", "N">>
    ELSE IF a.v < 0 THEN <<"-">> \o NatToString(-a.v)
    ELSE NatToString(a.v)

\* String.prototype.padStart(2, '0')
PadStart2(s) == IF Len(s) < 2 THEN <<"0">> \o s ELSE s

\* String.prototype.toLowerCase, on the letters a time marker can hold
ToLowerChar(c) ==
    IF c = "A" THEN "a" ELSE IF c = "P" THEN "p" ELSE IF c = "M" THEN "m" ELSE c

ToLowerCase(s) == [i \in 1..Len(s) |-> ToLowerChar(s[i])]

\* length of the longest run of digits of s that starts at position i
RECURSIVE DigitRun(_, _)
DigitRun(s, i) ==
    IF i > Len(s) \/ ~IsDigit(s[i]) THEN 0 ELSE 1 + DigitRun(s, i + 1)

\* value of the decimal digits s[i..j]
RECURSIVE DigitsValue(_, _, _)
DigitsValue(s, i, j) ==
    IF j < i THEN 0 ELSE 10 * DigitsValue(s, i, j - 1) + DigitVal(s[j])

\* parseInt(s) with no radix: leading white space is skipped, then an
\* optional sign, then the longest run of decimal digits; NaN when that run
\* is empty.  (The tokens of the model never start with 0x.)
ParseIntAt(s, i) ==
    LET signed == i <= Len(s) /\ s[i] \in {"+", "-"}
        from   == IF signed THEN i + 1 ELSE i
        n      == DigitRun(s, from)
        mag    == DigitsValue(s, from, from + n - 1)
    IN  IF n = 0 THEN NaN
        ELSE IF signed /\ s[i] = "-" THEN Num(-mag) ELSE Num(mag)

RECURSIVE SkipSpace(_, _)
SkipSpace(s, i) ==
    IF i <= Len(s) /\ IsSpace(s[i]) THEN SkipSpace(s, i + 1) ELSE i

ParseInt(s) == ParseIntAt(s, SkipSpace(s, 1))

\* String.prototype.trim
RECURSIVE TrimEnd(_)
TrimEnd(s) ==
    IF Len(s) > 0 /\ IsSpace(s[Len(s)]) THEN TrimEnd(SubSeq(s, 1, Len(s) - 1))
    ELSE s

Trim(s) == LET e == TrimEnd(s) IN SubSeq(e, SkipSpace(e, 1), Len(e))

\* String.prototype.split(/\s+/): the pieces between maximal runs of white
\* space; a leading or trailing run leaves an empty first or last piece.
RECURSIVE SplitFrom(_, _, _)
SplitFrom(s, i, cur) ==
    IF i > Len(s) THEN <<cur>>
    ELSE IF IsSpace(s[i])
         THEN <<cur>> \o SplitFrom(s, SkipSpace(s, i), <<>>)
         ELSE SplitFrom(s, i + 1, Append(cur, s[i]))

SplitWs(s) == SplitFrom(s, 1, <<>>)

(***************************************************************************)
(* Date: the calendar functions behind new Date(y, m, d, h, min), setHours  *)
(* and the get* methods                                                     *)
(***************************************************************************)
InvalidDate == [nan |-> TRUE, day |-> 0, min |-> 0]

MinutesPerDay == 1440

\* a time value is a whole number of milliseconds within 100,000,000 days
\* of the epoch; TimeClip makes anything beyond an Invalid Date
MaxDateDay == 100000000

DayFromYear(y) ==
    365 * (y - 1970) + ((y - 1969) \div 4) - ((y - 1901) \div 100)
        + ((y - 1601) \div 400)

InLeapYear(y) == DayFromYear(y + 1) - DayFromYear(y) = 366

YearFromDay(d) ==
    LET a  == 1970 + (d \div 365)
        b  == 1970 + (d \div 366)
        lo == (IF a < b THEN a ELSE b) - 1
        hi == (IF a < b THEN b ELSE a) + 1
    IN  CHOOSE y \in lo..hi : DayFromYear(y) <= d /\ d < DayFromYear(y + 1)

\* day within the year on which month m (0..12) starts
MonthStart(m, leap) ==
    <<0, 31, 59, 90, 120, 151, 181, 212, 243, 273, 304, 334, 365>>[m + 1]
        + (IF leap /\ m >= 2 THEN 1 ELSE 0)

MonthFromDay(d) ==
    LET y    == YearFromDay(d)
        leap == InLeapYear(y)
        w    == d - DayFromYear(y)
    IN  CHOOSE m \in 0..11 : MonthStart(m, leap) <= w /\ w < MonthStart(m + 1, leap)

DateFromDay(d) ==
    LET y == YearFromDay(d)
    IN  d - DayFromYear(y) - MonthStart(MonthFromDay(d), InLeapYear(y)) + 1

\* MakeDay(year, month, date): month may lie outside 0..11 and date outside
\* the month; both carry
MakeDay(year, month, date) ==
    LET ym == year + (month \div 12)
        mn == month % 12
    IN  DayFromYear(ym) + MonthStart(mn, InLeapYear(ym)) + date - 1

\* MakeDate(day, time) followed by TimeClip, with the time in minutes
MakeDate(day, minutes) ==
    LET d == day + (minutes \div MinutesPerDay)
        m == minutes % MinutesPerDay
    IN  IF d < -MaxDateDay \/ d > MaxDateDay \/ (d = MaxDateDay /\ m > 0)
        THEN InvalidDate
        ELSE [nan |-> FALSE, day |-> d, min |-> m]

\* new Date(year, month, day, hour, minute): a year 0..99 means 1900 + year
NewDate(year, month, day, hour, minute) ==
    IF year.nan \/ month.nan \/ day.nan \/ hour.nan \/ minute.nan
    THEN InvalidDate
    ELSE LET yr == IF 0 <= year.v /\ year.v <= 99 THEN 1900 + year.v ELSE year.v
         IN  MakeDate(MakeDay(yr, month.v, day.v), hour.v * 60 + minute.v)

getFullYear(date) == IF date.nan THEN NaN ELSE Num(YearFromDay(date.day))

getMonth(date) == IF date.nan THEN NaN ELSE Num(MonthFromDay(date.day))

getDate(date) == IF date.nan THEN NaN ELSE Num(DateFromDay(date.day))

getHours(date) == IF date.nan THEN NaN ELSE Num(date.min \div 60)

getMinutes(date) == IF date.nan THEN NaN ELSE Num(date.min % 60)

\* date.setHours(hour): the hour replaces the hour of the day and carries
setHours(date, hour) ==
    IF date.nan \/ hour.nan THEN InvalidDate
    ELSE MakeDate(date.day, hour.v * 60 + (date.min % 60))

(***************************************************************************)
(* Constants and configuration                                              *)
(***************************************************************************)
January == <<"J", "a", "n", "u", "a", "r", "y">>

February == <<"F", "e", "b", "r", "u", "a", "r", "y">>

March == <<"M", "a", "r", "c", "h">>

April == <<"A", "p", "r", "i", "l">>

May == <<"M", "a", "y">>

June == <<"J", "u", "n", "e">>

July == <<"J", "u", "l", "y">>

August == <<"A", "u", "g", "u", "s", "t">>

September == <<"S", "e", "p", "t", "e", "m", "b", "e", "r">>

October == <<"O", "c", "t", "o", "b", "e", "r">>

November == <<"N", "o", "v", "e", "m", "b", "e", "r">>

December == <<"D", "e", "c", "e", "m", "b", "e", "r">>

MONTHS ==
    <<January, February, March, April, May, June,
      July, August, September, October, November, December>>

EST == <<"E", "S", "T">>

PST == <<"P", "S", "T">>

CST == <<"C", "S", "T">>

MST == <<"M", "S", "T">>

UTC == <<"U", "T", "C">>

GMT == <<"G", "M", "T">>

SUPPORTED_TIMEZONES == {EST, PST, CST, MST, UTC, GMT}

\* TIMEZONE_OFFSETS[label]; a missing key gives undefined, which the only
\* use (a subtraction) turns into NaN
TIMEZONE_OFFSETS(label) ==
    IF label = EST THEN Num(-5)
    ELSE IF label = PST THEN Num(-8)
    ELSE IF label = CST THEN Num(-6)
    ELSE IF label = MST THEN Num(-7)
    ELSE IF label = UTC THEN Num(0)
    ELSE IF label = GMT THEN Num(0)
    ELSE NaN

Undefined == <<"u", "n", "d", "e", "f", "i", "n", "e", "d">>

\* MONTHS.includes(name)
MonthsIncludes(name) == \E i \in 1..12 : MONTHS[i] = name

\* MONTHS.indexOf(name): 0..11, or -1
MonthsIndexOf(name) ==
    IF MonthsIncludes(name) THEN (CHOOSE i \in 1..12 : MONTHS[i] = name) - 1
    ELSE -1

\* `${MONTHS[index]}`: the name, or "undefined" off the array or at NaN
MonthsAt(index) ==
    IF ~index.nan /\ index.v \in 0..11 THEN MONTHS[index.v + 1] ELSE Undefined

(***************************************************************************)
(* DateManipulator                                                          *)
(***************************************************************************)
Space == <<" ">>

AmPmMarkers == {<<"a", "m">>, <<"p", "m">>}

\* /(\d{1,2}):(\d{2})(am|pm)/i tried at position i with k hour digits
TimeMatchesAt(s, i, k) ==
    /\ i + k + 4 <= Len(s)
    /\ \A j \in i..(i + k - 1) : IsDigit(s[j])
    /\ s[i + k] = ":"
    /\ IsDigit(s[i + k + 1]) /\ IsDigit(s[i + k + 2])
    /\ ToLowerCase(SubSeq(s, i + k + 3, i + k + 4)) \in AmPmMarkers

\* timeString.match(...): the leftmost match anywhere in the string, two
\* hour digits preferred to one; matched |-> FALSE is null
TimeMatch(s) ==
    LET starts == {i \in 1..Len(s) : TimeMatchesAt(s, i, 2) \/ TimeMatchesAt(s, i, 1)}
    IN  IF starts = {} THEN [matched |-> FALSE, hour |-> <<>>, minute |-> <<>>, ampm |-> <<>>]
        ELSE LET i == CHOOSE a \in starts : \A b \in starts : a <= b
                 k == IF TimeMatchesAt(s, i, 2) THEN 2 ELSE 1
             IN  [matched |-> TRUE,
                  hour    |-> SubSeq(s, i, i + k - 1),
                  minute  |-> SubSeq(s, i + k + 1, i + k + 2),
                  ampm    |-> SubSeq(s, i + k + 3, i + k + 4)]

\* hour of the day from the written hour and marker
To24Hour(hour, ampm) ==
    IF ToLowerCase(ampm) = <<"p", "m">> /\ ~NumIs(hour, 12) THEN NumAdd(hour, Num(12))
    ELSE IF ToLowerCase(ampm) = <<"a", "m">> /\ NumIs(hour, 12) THEN Num(0)
    ELSE hour

NoParsed ==
    [year |-> NaN, month |-> -1, day |-> NaN, hour |-> NaN, minute |-> NaN,
     timezone |-> <<>>, originalString |-> <<>>]

ParseError(message) == [ok |-> FALSE, error |-> message, value |-> NoParsed]

\* DateManipulator.parseDateString(dateString): ok with the parsed value, or
\* the Error thrown, by its message
parseDateString(dateString) ==
    LET parts == SplitWs(Trim(dateString))
    IN  IF Len(parts) < 5 THEN ParseError("Date parsing failed: Invalid date format")
        ELSE
        LET monthName  == parts[1]
            day        == ParseInt(parts[2])
            year       == ParseInt(parts[3])
            timeString == parts[4]
            timezone   == parts[5]
            timeMatch  == TimeMatch(timeString)
        IN  IF ~timeMatch.matched
            THEN ParseError("Date parsing failed: Invalid time format")
            ELSE
            LET hour   == To24Hour(ParseInt(timeMatch.hour), timeMatch.ampm)
                minute == ParseInt(timeMatch.minute)
            IN  IF ~MonthsIncludes(monthName)
                THEN ParseError("Date parsing failed: Invalid month")
                ELSE IF NumLt(day, Num(1)) \/ NumGt(day, Num(31))
                THEN ParseError("Date parsing failed: Invalid day")
                ELSE IF timezone \notin SUPPORTED_TIMEZONES
                THEN ParseError("Date parsing failed: Unsupported timezone")
                ELSE [ok |-> TRUE, error |-> "",
                      value |-> [year |-> year, month |-> MonthsIndexOf(monthName),
                                 day |-> day, hour |-> hour, minute |-> minute,
                                 timezone |-> timezone,
                                 originalString |-> dateString]]

\* addHours with date.setHours(hoursToAdd) in place of
\* date.setHours(date.getHours() + hoursToAdd)
addHoursSetsHour(parsedDate, hoursToAdd) ==
    LET date == NewDate(parsedDate.year, Num(parsedDate.month), parsedDate.day,
                        parsedDate.hour, parsedDate.minute)
    IN  [original   |-> parsedDate,
         newDate    |-> setHours(date, hoursToAdd),
         hoursAdded |-> hoursToAdd,
         timezone   |-> parsedDate.timezone]

\* an addHours that adds the hours to the hour of the object it is given
addHoursInPlace(parsedDate, hoursToAdd) ==
    LET moved == [parsedDate EXCEPT !.hour = NumAdd(@, hoursToAdd)]
    IN  [original   |-> moved,
         newDate    |-> NewDate(moved.year, Num(moved.month), moved.day,
                                moved.hour, moved.minute),
         hoursAdded |-> hoursToAdd,
         timezone   |-> moved.timezone]

\* DateManipulator.addHours(parsedDate, hoursToAdd)
addHours(parsedDate, hoursToAdd) ==
    LET date == NewDate(parsedDate.year, Num(parsedDate.month), parsedDate.day,
                        parsedDate.hour, parsedDate.minute)
    IN  [original   |-> parsedDate,
         newDate    |-> setHours(date, NumAdd(getHours(date), hoursToAdd)),
         hoursAdded |-> hoursToAdd,
         timezone   |-> parsedDate.timezone]

\* a 12-hour conversion without the branch for noon
To12HourNoNoon(hour) ==
    IF NumIs(hour, 0) THEN [hour |-> Num(12), ampm |-> <<"a", "m">>]
    ELSE IF NumGt(hour, Num(11))
         THEN [hour |-> NumSub(hour, Num(12)), ampm |-> <<"p", "m">>]
    ELSE [hour |-> hour, ampm |-> <<"a", "m">>]

\* the 12-hour clock of formatDate: the hour shown and the marker
To12Hour(hour) ==
    IF NumIs(hour, 0) THEN [hour |-> Num(12), ampm |-> <<"a", "m">>]
    ELSE IF NumIs(hour, 12) THEN [hour |-> hour, ampm |-> <<"p", "m">>]
    ELSE IF NumGt(hour, Num(12)) THEN [hour |-> NumSub(hour, Num(12)), ampm |-> <<"p", "m">>]
    ELSE [hour |-> hour, ampm |-> <<"a", "m">>]

\* DateManipulator.formatDate(date, timezone)
formatDate(date, timezone) ==
    LET month  == MonthsAt(getMonth(date))
        day    == getDate(date)
        year   == getFullYear(date)
        clock  == To12Hour(getHours(date))
        minutePadded == PadStart2(NumToString(getMinutes(date)))
    IN  month \o Space \o NumToString(day) \o Space \o NumToString(year) \o Space
          \o NumToString(clock.hour) \o <<":">> \o minutePadded \o clock.ampm
          \o Space \o timezone

Returned(string) == [ok |-> TRUE, error |-> "", value |-> string]

Thrown(message) == [ok |-> FALSE, error |-> message, value |-> <<>>]

\* convertTimezone after its call of parseDateString, whose outcome is parsed
convertParsed(parsed, sourceTz, targetTz) ==
    IF ~parsed.ok THEN Thrown(parsed.error)
    ELSE
    LET sourceOffset == TIMEZONE_OFFSETS(sourceTz)
        targetOffset == TIMEZONE_OFFSETS(targetTz)
        date     == NewDate(parsed.value.year, Num(parsed.value.month),
                            parsed.value.day, parsed.value.hour, parsed.value.minute)
        hourDiff == NumSub(targetOffset, sourceOffset)
    IN  Returned(formatDate(setHours(date, NumAdd(getHours(date), hourDiff)), targetTz))

\* DateManipulator.convertTimezone(dateString, sourceTz, targetTz): the
\* string returned, or the Error parseDateString throws
convertTimezone(dateString, sourceTz, targetTz) ==
    convertParsed(parseDateString(dateString), sourceTz, targetTz)

(***************************************************************************)
(* APIService: the client-side fallback                                     *)
(***************************************************************************)
\* fallbackCalculation after its call of parseDateString, whose outcome is
\* parsed: the fields of the object returned that depend on the arguments
fallbackParsed(parsed, dateString, hoursToAdd, timezone) ==
    IF ~parsed.ok
    THEN [success |-> FALSE, error |-> parsed.error, new_date |-> <<>>,
          original_date |-> <<>>, hours_added |-> NaN, timezone |-> <<>>,
          method |-> "client-side"]
    ELSE [success |-> TRUE, error |-> "",
          new_date |-> formatDate(addHours(parsed.value, hoursToAdd).newDate, timezone),
          original_date |-> dateString, hours_added |-> hoursToAdd,
          timezone |-> timezone, method |-> "client-side"]

\* APIService.fallbackCalculation(dateString, hoursToAdd, timezone)
fallbackCalculation(dateString, hoursToAdd, timezone) ==
    fallbackParsed(parseDateString(dateString), dateString, hoursToAdd, timezone)

(***************************************************************************)
(* The standalone add12Hours                                                *)
(***************************************************************************)
\* String.prototype.split(':')
RECURSIVE SplitColonFrom(_, _, _)
SplitColonFrom(s, i, cur) ==
    IF i > Len(s) THEN <<cur>>
    ELSE IF s[i] = ":"
         THEN <<cur>> \o SplitColonFrom(s, i + 1, <<>>)
         ELSE SplitColonFrom(s, i + 1, Append(cur, s[i]))

SplitColon(s) == SplitColonFrom(s, 1, <<>>)

\* s.replace(/[apm]/g, '')
RemoveApm(s) == SelectSeq(s, LAMBDA c : c \notin {"a", "p", "m"})

\* s.includes('pm')
IncludesPm(s) == \E i \in 1..(Len(s) - 1) : s[i] = "p" /\ s[i + 1] = "m"

\* getMonthIndex(monthName)
getMonthIndex(monthName) == MonthsIndexOf(monthName)

\* `${getMonthName(monthIndex)}`
getMonthName(monthIndex) == MonthsAt(monthIndex)

\* parts[i] of an array read with parseInt: a missing element is undefined,
\* which parseInt turns into NaN
ParseIntPart(parts, i) == IF i <= Len(parts) THEN ParseInt(parts[i]) ELSE NaN

\* the 12-hour clock of add12Hours: resultHour and resultAmpm
ResultClock(resultHour) ==
    IF NumIs(resultHour, 0) THEN [hour |-> Num(12), ampm |-> <<"a", "m">>]
    ELSE IF NumIs(resultHour, 12) THEN [hour |-> resultHour, ampm |-> <<"p", "m">>]
    ELSE IF NumGt(resultHour, Num(12))
         THEN [hour |-> NumSub(resultHour, Num(12)), ampm |-> <<"p", "m">>]
    ELSE [hour |-> resultHour, ampm |-> <<"a", "m">>]

\* the hour of add12Hours in 24-hour form, from the two parts of the time
\* token around its colon
add12HoursHour(timeParts) ==
    LET written == ParseInt(timeParts[1])
        ampm    == IF IncludesPm(timeParts[2]) THEN <<"p", "m">> ELSE <<"a", "m">>
    IN  IF ampm = <<"p", "m">> /\ ~NumIs(written, 12)
        THEN NumAdd(written, Num(12))
        ELSE IF ampm = <<"a", "m">> /\ NumIs(written, 12) THEN Num(0)
        ELSE written

\* the Date of add12Hours after its setHours(getHours() + 12), from the
\* tokens of a string that has a time token with a colon
add12HoursDate(parts) ==
    LET monthName == parts[1]
        day       == ParseIntPart(parts, 2)
        year      == ParseIntPart(parts, 3)
        timeParts == SplitColon(parts[4])
        minute    == ParseInt(RemoveApm(timeParts[2]))
        date0     == NewDate(year, Num(getMonthIndex(monthName)), day,
                             add12HoursHour(timeParts), minute)
    IN  setHours(date0, NumAdd(getHours(date0), Num(12)))

\* the string add12Hours returns for its Date and its label
add12HoursFormat(date, timezone) ==
    LET clock        == ResultClock(getHours(date))
        resultMinute == PadStart2(NumToString(getMinutes(date)))
    IN  Returned(getMonthName(getMonth(date)) \o Space \o NumToString(getDate(date))
                   \o Space \o NumToString(getFullYear(date)) \o Space
                   \o NumToString(clock.hour) \o <<":">> \o resultMinute
                   \o clock.ampm \o Space \o timezone)

\* add12Hours after its split of the string into parts: the string
\* returned, or the TypeError thrown when the time token or its part after
\* the colon is missing
add12HoursParts(parts) ==
    IF Len(parts) < 4
    THEN Thrown("TypeError: Cannot read properties of undefined (reading 'split')")
    ELSE IF Len(SplitColon(parts[4])) < 2
    THEN Thrown("TypeError: Cannot read properties of undefined (reading 'replace')")
    ELSE add12HoursFormat(add12HoursDate(parts),
                          IF Len(parts) >= 5 THEN parts[5] ELSE Undefined)

\* add12Hours(dateString)
add12Hours(dateString) == add12HoursParts(SplitWs(dateString))

(***************************************************************************)
(* AppState                                                                 *)
(***************************************************************************)
MAX_HISTORY_ITEMS == 50

\* appState.currentResult before any calculation
Null == [success |-> FALSE, error |-> "", method |-> "null"]

\* { ...item, timestamp: new Date().toISOString() }, the clock read as time
HistoryEntry(item, time) == [timestamp |-> time] @@ item

\* an addToHistory that keeps the last MAX_HISTORY_ITEMS entries of the list
addToHistoryKeepsTail(state, item, time) ==
    LET unshifted == <<HistoryEntry(item, time)>> \o state.history
    IN  [state EXCEPT !.history =
            IF Len(unshifted) > MAX_HISTORY_ITEMS
            THEN SubSeq(unshifted, Len(unshifted) - MAX_HISTORY_ITEMS + 1, Len(unshifted))
            ELSE unshifted]

\* AppState.addToHistory(item) at the clock reading time: the appState after
\* the call, given the one before
addToHistory(state, item, time) ==
    LET unshifted == <<HistoryEntry(item, time)>> \o state.history
    IN  [state EXCEPT !.history =
            IF Len(unshifted) > MAX_HISTORY_ITEMS
            THEN SubSeq(unshifted, 1, MAX_HISTORY_ITEMS)
            ELSE unshifted]

(***************************************************************************)
(* APIService: the request and the calculation                              *)
(***************************************************************************)
\* a promise that has settled
Fulfilled(value) == [fulfilled |-> TRUE, value |-> value, reason |-> ""]

Rejected(reason) == [fulfilled |-> FALSE, value |-> Null, reason |-> reason]

\* what becomes of a request: fetch rejects (no network, or the abort of the
\* timeout), or it resolves with a response whose status is not OK, whose
\* body cannot be read as JSON, or whose body is the value body
NetworkError == [kind |-> "network-error", body |-> Null]

Aborted == [kind |-> "aborted", body |-> Null]

HttpError == [kind |-> "http-error", body |-> Null]

Unreadable == [kind |-> "unreadable", body |-> Null]

Json(body) == [kind |-> "json", body |-> body]

\* APIService.makeRequest: the promise it returns for the request's fate
makeRequest(response) ==
    IF response.kind = "network-error" THEN Rejected("TypeError: Failed to fetch")
    ELSE IF response.kind = "aborted" THEN Rejected("AbortError")
    ELSE IF response.kind = "http-error" THEN Rejected("HTTP error! status")
    ELSE Fulfilled(response)

\* response.json()
ResponseJson(response) ==
    IF response.kind = "unreadable" THEN Rejected("SyntaxError")
    ELSE Fulfilled(response.body)

\* a calculateDate that returns response.json() without awaiting it
calculateDateReturnsPromise(dateString, hoursToAdd, timezone, response) ==
    IF ~makeRequest(response).fulfilled
    THEN Fulfilled(fallbackCalculation(dateString, hoursToAdd, timezone))
    ELSE ResponseJson(response)

\* APIService.calculateDate(dateString, hoursToAdd, timezone): the promise
\* it returns, given the fate of its request
calculateDate(dateString, hoursToAdd, timezone, response) ==
    IF ~makeRequest(response).fulfilled
    THEN Fulfilled(fallbackCalculation(dateString, hoursToAdd, timezone))
    ELSE IF ~ResponseJson(response).fulfilled
    THEN Fulfilled(fallbackCalculation(dateString, hoursToAdd, timezone))
    ELSE Fulfilled(ResponseJson(response).value)

\* the click handler of #calculateBtn once calculateDate has settled: the
\* appState it leaves, given the one before and the clock
calculateSettledAlwaysAdds(state, outcome, time) ==
    IF ~outcome.fulfilled THEN state
    ELSE addToHistory([state EXCEPT !.currentResult = outcome.value],
                      outcome.value, time)

calculateSettled(state, outcome, time) ==
    IF ~outcome.fulfilled THEN state
    ELSE LET shown == [state EXCEPT !.currentResult = outcome.value]
         IN  IF outcome.value.success
             THEN addToHistory(shown, outcome.value, time)
             ELSE shown

(***************************************************************************)
(* Inputs                                                                   *)
(***************************************************************************)
\* largest number of hours typed into the hours field, in either direction
MaxHours == 25

\* largest number of conversions written back into the date field
MaxConversions == 1

XYZ == <<"X", "Y", "Z">>

\* "<month> <day> <year> <time> <label>"
DateString(month, day, year, time, label) ==
    month \o Space \o day \o Space \o year \o Space \o time \o Space \o label

TimeToken(hour, minute, marker) ==
    NatToString(hour) \o <<":">> \o PadStart2(NatToString(minute)) \o marker

\* month, day and year tokens of dates that exist, on both sides of the
\* ends of February, of the year and of the years 0..99
CalendarDays ==
    { <<February, 28, 2004>>, <<February, 29, 2004>>, <<February, 28, 1900>>,
      <<March, 1, 1900>>, <<February, 29, 2000>>, <<December, 31, 2020>>,
      <<January, 1, 2021>>, <<March, 6, 2009>>, <<March, 6, 50>>,
      <<December, 31, 99>>, <<January, 1, 100>>, <<January, 1, 0>> }

\* month, day and year tokens the parser lets through although the month
\* has no such day
PermissiveDays ==
    { <<April, 31, 2009>>, <<February, 30, 2004>>, <<February, 29, 1900>> }

ClockTimes == { TimeToken(9, 15, <<"p", "m">>), TimeToken(12, 0, <<"a", "m">>) }

MoreClockTimes == { TimeToken(12, 30, <<"p", "m">>), TimeToken(1, 45, <<"a", "m">>) }

\* time tokens of the right shape whose hour is not one of 1..12 or whose
\* minute is above 59, and one with an upper-case marker
PermissiveTimes ==
    { TimeToken(13, 5, <<"p", "m">>), TimeToken(0, 10, <<"a", "m">>),
      TimeToken(7, 75, <<"p", "m">>), TimeToken(7, 30, <<"P", "M">>) }

\* time tokens that are not, as a whole, of the shape h:mm(am|pm)
MalformedTimes ==
    { <<"7", "3", "0", "p", "m">>, <<"1", "2", "3", ":", "4", "5", "a", "m">>,
      <<"x", "7", ":", "3", "0", "p", "m">>, <<"7", ":", "3", "0", "p", "m", "x">>,
      <<"7", ":", "3", "p", "m">> }

\* day and year tokens that are not integers, and days out of range
MalformedDays == { <<"a", "b", "c">>, <<"1", "2", "t", "h">>, <<"0">>, <<"3", "2">> }

MalformedYears == { <<"a", "b", "c">>, <<"2", "0", "0", "9", "x">> }

Y2009 == <<"2", "0", "0", "9">>

DateInputs ==
    { DateString(d[1], NatToString(d[2]), NatToString(d[3]), t, EST) :
          d \in CalendarDays, t \in ClockTimes }
    \cup { DateString(d[1], NatToString(d[2]), NatToString(d[3]), TimeToken(9, 15, <<"p", "m">>), PST) :
          d \in PermissiveDays }
    \cup { DateString(March, <<"6">>, Y2009, t, EST) :
          t \in MoreClockTimes \cup PermissiveTimes \cup MalformedTimes }
    \cup { DateString(March, d, Y2009, TimeToken(7, 30, <<"p", "m">>), EST) :
          d \in MalformedDays }
    \cup { DateString(March, <<"6">>, y, TimeToken(7, 30, <<"p", "m">>), EST) :
          y \in MalformedYears }
    \cup { DateString(March, <<"6">>, Y2009, TimeToken(7, 30, <<"p", "m">>), XYZ),
           DateString(<<"M", "a", "r">>, <<"6">>, Y2009, TimeToken(7, 30, <<"p", "m">>), EST),
           DateString(March, <<"a", "b", "c">>, Y2009, <<"7", "3", "0", "p", "m">>, EST),
           Space \o DateString(March, <<"6">>, Y2009, TimeToken(7, 30, <<"p", "m">>), EST),
           March \o Space \o <<"6">> \o Space \o Y2009 }

\* values of the hours field: integers, and the empty field
HoursInputs ==
    { NumToString(Num(h)) : h \in {-MaxHours, 0, 12} } \cup { <<>> }

\* values of the #timezone select
TimezoneInputs == {EST, PST, XYZ}

\* values of the #sourceTimezone select
SourceInputs == {EST, UTC, XYZ}

\* values of the #targetTimezone select
TargetInputs == {PST, XYZ}

(***************************************************************************)
(* State                                                                    *)
(***************************************************************************)
VARIABLES
    dateInput,    \* value of the #dateInput field
    hoursToAdd,   \* value of the #hoursToAdd field
    timezone,     \* value of the #timezone select
    sourceTz,     \* value of the #sourceTimezone select
    targetTz,     \* value of the #targetTimezone select
    call,         \* the last call into the engine: its name, arguments and outcome
    conversions,  \* number of conversions written back into #dateInput
    appState,     \* the AppState object: history, currentResult, isDarkMode, apiStatus
    loadingActive,\* the loading overlay has the class 'active'
    inflight,     \* the calculations started and not yet settled
    started,      \* number of calculations started
    settled,      \* for each settled calculation: its request, the fate of the
                  \* request and the promise calculateDate returned
    now           \* the clock

vars == <<dateInput, hoursToAdd, timezone, sourceTz, targetTz, call, conversions,
          appState, loadingActive, inflight, started, settled, now>>

NoCall == [op |-> "none"]

\* new AppState() over the stored history
NewAppState(stored) ==
    [history |-> stored, currentResult |-> Null, isDarkMode |-> FALSE,
     apiStatus |-> "disconnected"]

\* no calculation has been started and the overlay is hidden
Idle ==
    /\ loadingActive = FALSE
    /\ inflight = {}
    /\ started = 0
    /\ settled = << >>
    /\ now = 0

Init ==
    /\ dateInput \in DateInputs
    /\ hoursToAdd \in HoursInputs
    /\ timezone \in TimezoneInputs
    /\ sourceTz \in SourceInputs
    /\ targetTz \in TargetInputs
    /\ call = NoCall
    /\ conversions = 0
    /\ appState = NewAppState(<<>>)
    /\ Idle

\* EventHandlers.validateInput(value): true for a blank value, else whether
\* parseDateString returns
validateInput(value) == Trim(value) = <<>> \/ parseDateString(value).ok

\* the record of a call of parseDateString
ParseCall(dateString) ==
    [op |-> "parseDateString", dateString |-> dateString,
     parsed |-> parseDateString(dateString)]

\* the record of a call of fallbackCalculation; parsed and the result of
\* addHours are its locals: added is the new Date, original the parsed
\* object as the result of addHours refers to it after the call
FallbackRecord(parsed, hoursAdded, dateString, hours, tz) ==
    [op |-> "fallbackCalculation", dateString |-> dateString,
     hoursToAdd |-> hours, timezone |-> tz,
     parsed |-> parsed,
     added |-> IF parsed.ok THEN hoursAdded.newDate ELSE InvalidDate,
     original |-> IF parsed.ok THEN hoursAdded.original ELSE NoParsed,
     result |-> fallbackParsed(parsed, dateString, hours, tz)]

FallbackParsedCall(parsed, dateString, hours, tz) ==
    FallbackRecord(parsed,
                   IF parsed.ok THEN addHours(parsed.value, hours)
                   ELSE [original |-> NoParsed, newDate |-> InvalidDate],
                   dateString, hours, tz)

FallbackCall(dateString, hours, tz) ==
    FallbackParsedCall(parseDateString(dateString), dateString, hours, tz)

\* click on #calculateBtn up to its await: the overlay is shown and
\* calculateDate is called on the fields' values, the hours read with parseInt
StartCalculation(dateString, tz) ==
    /\ loadingActive' = TRUE
    /\ started' = started + 1
    /\ inflight' = inflight \cup
           { [id |-> started + 1, dateString |-> dateString,
              hoursToAdd |-> ParseInt(hoursToAdd), timezone |-> tz] }

\* the input event's validation: validateInput on the field's value,
\* parseDateString unless the field is blank
ValidateInput ==
    /\ Trim(dateInput) # <<>>
    /\ call' = ParseCall(dateInput)
    /\ UNCHANGED <<dateInput, hoursToAdd, timezone, sourceTz, targetTz, conversions,
                   appState, loadingActive, inflight, started, settled, now>>

\* the calculation served on the client: fallbackCalculation on the fields'
\* values, the hours read with parseInt
FallbackCalculation ==
    /\ call' = FallbackCall(dateInput, ParseInt(hoursToAdd), timezone)
    /\ UNCHANGED <<dateInput, hoursToAdd, timezone, sourceTz, targetTz, conversions,
                   appState, loadingActive, inflight, started, settled, now>>

\* the click on #convertTimezone, converted being what convertTimezone
\* makes of the fields' values and parsed what its parseDateString returned
ConvertClick(parsed, converted) ==
    /\ conversions < MaxConversions
    /\ call' = [op |-> "convertTimezone", dateString |-> dateInput,
                sourceTz |-> sourceTz, targetTz |-> targetTz,
                parsed |-> parsed,
                result |-> converted]
    /\ IF converted.ok
       THEN /\ dateInput' = converted.value
            /\ timezone' = targetTz
            /\ conversions' = conversions + 1
            /\ StartCalculation(dateInput', targetTz)
       ELSE UNCHANGED <<dateInput, timezone, conversions,
                        loadingActive, inflight, started>>
    /\ UNCHANGED <<hoursToAdd, sourceTz, targetTz, appState, settled, now>>

ConvertParsed(parsed) == ConvertClick(parsed, convertParsed(parsed, sourceTz, targetTz))

\* click on #convertTimezone: convertTimezone on the fields' values; the
\* string returned is written to #dateInput and the target to #timezone,
\* and #calculateBtn is clicked
ConvertTimezone == ConvertParsed(parseDateString(dateInput))

\* the call of add12Hours on the field's value, whose tokens are parts;
\* hour and date are its locals, where it gets as far as computing them
Add12HoursResult(parts, result) ==
    /\ call' = [op |-> "add12Hours", dateString |-> dateInput,
                hour |-> IF result.ok THEN add12HoursHour(SplitColon(parts[4])) ELSE NaN,
                date |-> IF result.ok THEN add12HoursDate(parts) ELSE InvalidDate,
                result |-> result]
    /\ UNCHANGED <<dateInput, hoursToAdd, timezone, sourceTz, targetTz, conversions,
                   appState, loadingActive, inflight, started, settled, now>>

Add12HoursParts(parts) == Add12HoursResult(parts, add12HoursParts(parts))

\* add12Hours on the field's value
Add12Hours == Add12HoursParts(SplitWs(dateInput))

Next ==
    \/ ValidateInput
    \/ FallbackCalculation
    \/ ConvertTimezone
    \/ Add12Hours

Spec == Init /\ [][Next]_vars

(***************************************************************************)
(* The page: calculations in flight                                         *)
(***************************************************************************)
MaxCalculations == 2

\* values typed into #dateInput: two the parser accepts, one it rejects
UiDateInputs ==
    { DateString(March, <<"6">>, Y2009, TimeToken(7, 30, <<"p", "m">>), EST),
      DateString(March, <<"7">>, Y2009, TimeToken(7, 30, <<"p", "m">>), EST),
      DateString(March, <<"6">>, Y2009, <<"7", "3", "0", "p", "m">>, EST) }

\* the bodies the server may answer a request with: the calculation done,
\* or refused
ServerBodies(req) ==
    { [fallbackCalculation(req.dateString, req.hoursToAdd, req.timezone)
          EXCEPT !.method = "server"],
      [success |-> FALSE, error |-> "Invalid request", new_date |-> <<>>,
       original_date |-> <<>>, hours_added |-> NaN, timezone |-> <<>>,
       method |-> "server"] }

\* the fates of the request of a calculation
Responses(req) ==
    {NetworkError, Aborted, HttpError, Unreadable}
      \cup { Json(body) : body \in ServerBodies(req) }

InitUI ==
    /\ dateInput \in UiDateInputs
    /\ hoursToAdd = <<"1", "2">>
    /\ timezone = EST
    /\ sourceTz = EST
    /\ targetTz = PST
    /\ call = NoCall
    /\ conversions = 0
    /\ appState = NewAppState(<<>>)
    /\ Idle

\* click on #calculateBtn
CalculateClick ==
    /\ started < MaxCalculations
    /\ StartCalculation(dateInput, timezone)
    /\ UNCHANGED <<dateInput, hoursToAdd, timezone, sourceTz, targetTz, call,
                   conversions, appState, settled, now>>

\* the value of #dateInput changed to s: the change listener clicks
\* #calculateBtn when the value is not empty and validateInput accepts it
ChangeDateInput(s) ==
    /\ started < MaxCalculations
    /\ s # dateInput
    /\ dateInput' = s
    /\ call' = IF s # <<>> /\ Trim(s) # <<>> THEN ParseCall(s) ELSE call
    /\ IF s # <<>> /\ validateInput(s)
       THEN StartCalculation(s, timezone)
       ELSE UNCHANGED <<loadingActive, inflight, started>>
    /\ UNCHANGED <<hoursToAdd, timezone, sourceTz, targetTz, conversions,
                   appState, settled, now>>

\* the click handler of #calculateBtn after its await: calculateDate has
\* settled for the calculation req, whose request fared as response says
Settle(req, response) ==
    LET outcome == calculateDate(req.dateString, req.hoursToAdd, req.timezone,
                                 response)
    IN  /\ req \in inflight
        /\ inflight' = inflight \ {req}
        /\ settled' = (req.id :> [request |-> req, response |-> response,
                                  outcome |-> outcome]) @@ settled
        /\ now' = now + 1
        /\ appState' = calculateSettled(appState, outcome, now')
        /\ loadingActive' = FALSE
        /\ call' = IF response.kind = "json" THEN call
                   ELSE FallbackCall(req.dateString, req.hoursToAdd, req.timezone)
        /\ UNCHANGED <<dateInput, hoursToAdd, timezone, sourceTz, targetTz,
                       conversions, started>>

NextUI ==
    \/ CalculateClick
    \/ \E s \in UiDateInputs : ChangeDateInput(s)
    \/ ValidateInput
    \/ \E req \in inflight : \E response \in Responses(req) : Settle(req, response)

SpecUI == InitUI /\ [][NextUI]_vars

(***************************************************************************)
(* The history on its own                                                   *)
(***************************************************************************)
MaxAdds == 2

\* results to add to the history
HistoryItems ==
    { fallbackCalculation(d, Num(12), EST) :
          d \in { DateString(March, <<"6">>, Y2009, TimeToken(7, 30, <<"p", "m">>), EST),
                  DateString(March, <<"7">>, Y2009, TimeToken(7, 30, <<"p", "m">>), EST) } }

\* a history of n entries as earlier sessions stored it: newest first
StoredHistory(n) ==
    [i \in 1..n |->
        HistoryEntry(fallbackCalculation(
            DateString(March, <<"6">>, Y2009, TimeToken(7, 30, <<"p", "m">>), EST),
            Num(12), EST), 0 - i)]

InitHistory ==
    /\ dateInput \in UiDateInputs
    /\ hoursToAdd = <<"1", "2">>
    /\ timezone = EST
    /\ sourceTz = EST
    /\ targetTz = PST
    /\ call = NoCall
    /\ conversions = 0
    /\ \E n \in 0..MAX_HISTORY_ITEMS : appState = NewAppState(StoredHistory(n))
    /\ Idle

\* appState.addToHistory(item)
AddToHistory(item) ==
    /\ now < MaxAdds
    /\ now' = now + 1
    /\ appState' = addToHistory(appState, item, now')
    /\ call' = [op |-> "addToHistory", item |-> item]
    /\ UNCHANGED <<dateInput, hoursToAdd, timezone, sourceTz, targetTz, conversions,
                   loadingActive, inflight, started, settled>>

NextHistory == \E item \in HistoryItems : AddToHistory(item)

SpecHistory == InitHistory /\ [][NextHistory]_vars

(***************************************************************************)
(* Reference calendar: the Gregorian calendar as the specification states   *)
(* it, one day at a time, written independently of the Date functions       *)
(***************************************************************************)
RefIsLeap(y) == (y % 4 = 0) /\ ((y % 100 # 0) \/ (y % 400 = 0))

RefDaysInMonth(y, m) ==
    IF m = 1 THEN (IF RefIsLeap(y) THEN 29 ELSE 28)
    ELSE IF m \in {3, 5, 8, 10} THEN 30 ELSE 31

RefNextDay(c) ==
    IF c.day < RefDaysInMonth(c.year, c.month) THEN [c EXCEPT !.day = c.day + 1]
    ELSE IF c.month < 11 THEN [c EXCEPT !.month = c.month + 1, !.day = 1]
    ELSE [c EXCEPT !.year = c.year + 1, !.month = 0, !.day = 1]

RefPrevDay(c) ==
    IF c.day > 1 THEN [c EXCEPT !.day = c.day - 1]
    ELSE IF c.month > 0
         THEN [c EXCEPT !.month = c.month - 1,
                        !.day = RefDaysInMonth(c.year, c.month - 1)]
    ELSE [c EXCEPT !.year = c.year - 1, !.month = 11, !.day = 31]

\* the civil date/time c with its hour brought into 0..23 by whole days
RECURSIVE RefCarry(_)
RefCarry(c) ==
    IF c.hour >= 24 THEN RefCarry([RefNextDay(c) EXCEPT !.hour = c.hour - 24])
    ELSE IF c.hour < 0 THEN RefCarry([RefPrevDay(c) EXCEPT !.hour = c.hour + 24])
    ELSE c

\* the civil date/time h hours after c; minutes beyond 59 count as hours
RefAddHours(c, h) ==
    RefCarry([c EXCEPT !.hour = c.hour + h + (c.minute \div 60),
                       !.minute = c.minute % 60])

\* the string of the fixed grammar for the civil date/time c and a label
RefFormat(c, label) ==
    MONTHS[c.month + 1] \o Space \o NumToString(Num(c.day)) \o Space
      \o NumToString(Num(c.year)) \o Space
      \o NatToString(((c.hour + 11) % 12) + 1) \o <<":">>
      \o (IF c.minute < 10 THEN <<"0">> ELSE <<>>) \o NatToString(c.minute)
      \o (IF c.hour < 12 THEN <<"a", "m">> ELSE <<"p", "m">>)
      \o Space \o label

\* the offsets of the specification's table
RefOffset(label) ==
    IF label = EST THEN -5 ELSE IF label = PST THEN -8 ELSE IF label = CST THEN -6
    ELSE IF label = MST THEN -7 ELSE 0

\* the fields of a parsed value as a civil date/time
CivilOf(p) ==
    [year |-> p.year.v, month |-> p.month, day |-> p.day.v, hour |-> p.hour.v,
     minute |-> p.minute.v]

\* the parsed value has numbers in all its fields
NumericFields(p) == ~p.year.nan /\ ~p.day.nan /\ ~p.hour.nan /\ ~p.minute.nan

\* the parsed value names a day its month has
DayValidForMonth(p) ==
    NumericFields(p) /\ p.day.v >= 1 /\ p.day.v <= RefDaysInMonth(p.year.v, p.month)

\* the civil fields a Date shows through its get* methods
FieldsOfDate(date) ==
    [year |-> getFullYear(date), month |-> getMonth(date), day |-> getDate(date),
     hour |-> getHours(date), minute |-> getMinutes(date)]

FieldsOfParsed(p) ==
    [year |-> p.year, month |-> Num(p.month), day |-> p.day, hour |-> p.hour,
     minute |-> p.minute]

\* the last token of a string
LastToken(s) == LET parts == SplitWs(Trim(s)) IN parts[Len(parts)]

Calculated == call.op = "fallbackCalculation"

Converted == call.op = "convertTimezone"

Parsed == call.op = "parseDateString"

Added12 == call.op = "add12Hours"

(***************************************************************************)
(* C1                                                                       *)
(***************************************************************************)
\* the string the calendar gives for the calculation of the state
ExpectedNewDate ==
    RefFormat(RefAddHours(CivilOf(call.parsed.value), call.hoursToAdd.v), call.timezone)

\* C1: for every parsed date whose day is valid for its month and every
\* integer number of hours, addHours followed by formatDate yields the civil
\* date/time that many hours later in the Gregorian calendar.
C1_AddHoursFollowsCalendar ==
    (Calculated /\ call.parsed.ok /\ DayValidForMonth(call.parsed.value)
        /\ ~call.hoursToAdd.nan)
    => call.result.new_date = ExpectedNewDate

\* the same with the years 0..99 left out, the only years on which the
\* calculation leaves the calendar
AddHoursFollowsCalendarFromYear100 ==
    (Calculated /\ call.parsed.ok /\ DayValidForMonth(call.parsed.value)
        /\ ~call.hoursToAdd.nan /\ call.parsed.value.year.v \notin 0..99)
    => call.result.new_date = ExpectedNewDate

(***************************************************************************)
(* C2                                                                       *)
(***************************************************************************)
\* the Date of the calculation of the state with its hours taken off again
RoundTrip == setHours(call.added, NumSub(getHours(call.added), call.hoursToAdd))

\* the Date the constructor builds from the parsed fields
DateOfParsed ==
    NewDate(call.parsed.value.year, Num(call.parsed.value.month),
            call.parsed.value.day, call.parsed.value.hour, call.parsed.value.minute)

\* the parsed value is the calendar's own way of writing its date/time
Normalised(p) ==
    /\ DayValidForMonth(p)
    /\ p.hour.v \in 0..23
    /\ p.minute.v \in 0..59
    /\ p.year.v \notin 0..99

TokensOf(s) == SplitWs(Trim(s))

\* an optional sign and one or more digits, nothing else
IsIntegerToken(t) ==
    LET from == IF Len(t) >= 1 /\ t[1] \in {"+", "-"} THEN 2 ELSE 1
    IN  Len(t) >= from /\ \A i \in from..Len(t) : IsDigit(t[i])

\* as a whole: one or two digits, a colon, two digits, am or pm in any case
WholeTimeShape(t) ==
    /\ Len(t) \in {6, 7}
    /\ \A i \in 1..(Len(t) - 5) : IsDigit(t[i])
    /\ t[Len(t) - 4] = ":"
    /\ IsDigit(t[Len(t) - 3]) /\ IsDigit(t[Len(t) - 2])
    /\ t[Len(t) - 1] \in {"a", "A", "p", "P"}
    /\ t[Len(t)] \in {"m", "M"}

WrittenHour(t) == DigitsValue(t, 1, Len(t) - 5)

WrittenMinute(t) == DigitsValue(t, Len(t) - 3, Len(t) - 2)

WrittenPm(t) == t[Len(t) - 1] \in {"p", "P"}

\* the other tokens of a five-token string are what the grammar asks for
MonthTimeLabelFine(parts) ==
    /\ Len(parts) >= 5
    /\ MonthsIncludes(parts[1])
    /\ WholeTimeShape(parts[4])
    /\ parts[5] \in SUPPORTED_TIMEZONES

DayTokenFine(t) == IsIntegerToken(t) /\ ParseInt(t).v \in 1..31

\* the civil date/time a string of the fixed grammar denotes
CivilOfTokens(parts) ==
    [year   |-> ParseInt(parts[3]).v,
     month  |-> MonthsIndexOf(parts[1]),
     day    |-> ParseInt(parts[2]).v,
     hour   |-> (WrittenHour(parts[4]) % 12) + (IF WrittenPm(parts[4]) THEN 12 ELSE 0),
     minute |-> WrittenMinute(parts[4])]

\* a string of the fixed grammar: month name, day of that month, integer
\* year, hour 1..12, minute 00..59, marker, label of the fixed set
GrammarInput(s) ==
    LET parts == TokensOf(s)
    IN  /\ Len(parts) = 5
        /\ MonthTimeLabelFine(parts)
        /\ IsIntegerToken(parts[2]) /\ IsIntegerToken(parts[3])
        /\ ParseInt(parts[2]).v \in
               1..RefDaysInMonth(ParseInt(parts[3]).v, MonthsIndexOf(parts[1]))
        /\ WrittenHour(parts[4]) \in 1..12
        /\ WrittenMinute(parts[4]) \in 0..59

CanonicalForm(s) == RefFormat(CivilOfTokens(TokensOf(s)), TokensOf(s)[5])

(***************************************************************************)
(* C3                                                                       *)
(***************************************************************************)
\* the calculation of the state is parse -> addHours(., 0) -> formatDate
\* with the parsed label, on a string of the fixed grammar
ZeroHourPipeline ==
    /\ Calculated
    /\ GrammarInput(call.dateString)
    /\ NumIs(call.hoursToAdd, 0)
    /\ call.timezone = TokensOf(call.dateString)[5]

\* C3: for every string of the fixed grammar (any integer year, years below
\* 100 included), parsing succeeds and formatting the parsed value with zero
\* hours added and the parsed label reproduces the string in canonical form.
C3_ParseFormatRoundTrip ==
    ZeroHourPipeline
    => /\ call.result.success
       /\ call.result.new_date = CanonicalForm(call.dateString)

\* the same with the years 0..99 left out
ParseFormatRoundTripFromYear100 ==
    (ZeroHourPipeline /\ call.parsed.value.year.v \notin 0..99)
    => /\ call.result.success
       /\ call.result.new_date = CanonicalForm(call.dateString)

(***************************************************************************)
(* C4                                                                       *)
(***************************************************************************)
UnknownTimezone == "Date parsing failed: Unsupported timezone"

\* C4: convertTimezone fails with an UnknownTimezone error whenever the
\* source label or the target label is not one of the six; it never
\* returns a string then.  Stated on date strings that parse.
C4_ConvertRejectsUnknownLabels ==
    (Converted /\ call.parsed.ok
        /\ (call.sourceTz \notin SUPPORTED_TIMEZONES
              \/ call.targetTz \notin SUPPORTED_TIMEZONES))
    => ~call.result.ok /\ call.result.error = UnknownTimezone

(***************************************************************************)
(* C5                                                                       *)
(***************************************************************************)
\* a conversion between supported labels of a date that exists, outside
\* the years 0..99
SupportedConversion ==
    /\ Converted /\ call.parsed.ok
    /\ DayValidForMonth(call.parsed.value)
    /\ call.parsed.value.year.v \notin 0..99
    /\ call.sourceTz \in SUPPORTED_TIMEZONES
    /\ call.targetTz \in SUPPORTED_TIMEZONES

\* C5: convertTimezone shifts the civil time by offsetOf(target) -
\* offsetOf(L) hours, L being the label written in the date string, and the
\* result carries the target label.
C5_ConvertShiftsFromDateLabel ==
    SupportedConversion
    => /\ call.result.ok
       /\ call.result.value =
            RefFormat(RefAddHours(CivilOf(call.parsed.value),
                                  RefOffset(call.targetTz)
                                    - RefOffset(call.parsed.value.timezone)),
                      call.targetTz)

\* what the conversion does: the shift is taken from the source select
ConvertShiftsFromSourceSelect ==
    SupportedConversion
    => /\ call.result.ok
       /\ call.result.value =
            RefFormat(RefAddHours(CivilOf(call.parsed.value),
                                  RefOffset(call.targetTz) - RefOffset(call.sourceTz)),
                      call.targetTz)

(***************************************************************************)
(* C6, C7, C8                                                               *)
(***************************************************************************)
InvalidDay == "Date parsing failed: Invalid day"

InvalidTime == "Date parsing failed: Invalid time format"

\* C6: parseDateString fails with an InvalidDay error for every input whose
\* second token is not an integer or is an integer below 1 or above 31, and
\* passes the day check for every integer 1 to 31 whatever the month.
\* Stated on inputs whose month, time and label tokens are fine.
C6_DayTokenChecked ==
    (Parsed /\ MonthTimeLabelFine(TokensOf(call.dateString)))
    => IF DayTokenFine(TokensOf(call.dateString)[2])
       THEN call.parsed.ok
       ELSE ~call.parsed.ok /\ call.parsed.error = InvalidDay

\* the part of C6 that holds: an integer day below 1 or above 31 is an
\* InvalidDay error, an integer day 1..31 passes
IntegerDayRangeChecked ==
    (Parsed /\ MonthTimeLabelFine(TokensOf(call.dateString))
        /\ IsIntegerToken(TokensOf(call.dateString)[2]))
    => IF DayTokenFine(TokensOf(call.dateString)[2])
       THEN call.parsed.ok
       ELSE ~call.parsed.ok /\ call.parsed.error = InvalidDay

\* C7: parseDateString fails with an InvalidYear error for every input
\* whose third token is not an integer.  Stated on inputs whose other
\* tokens are fine: such an input must not parse.
C7_YearTokenChecked ==
    (Parsed /\ MonthTimeLabelFine(TokensOf(call.dateString))
        /\ DayTokenFine(TokensOf(call.dateString)[2])
        /\ ~IsIntegerToken(TokensOf(call.dateString)[3]))
    => ~call.parsed.ok

\* C8: parseDateString fails with an InvalidTime error for every input
\* whose fourth token is not, as a whole, of the shape h:mm(am|pm), and
\* raises no InvalidTime error on a token of that shape.
C8_TimeTokenMatchedWhole ==
    (Parsed /\ Len(TokensOf(call.dateString)) >= 5)
    => IF WholeTimeShape(TokensOf(call.dateString)[4])
       THEN call.parsed.error # InvalidTime
       ELSE ~call.parsed.ok /\ call.parsed.error = InvalidTime

\* the part of C8 that holds: a token with no h:mm(am|pm) inside it is an
\* InvalidTime error, a token of the shape is not
TimeTokenMatchedSomewhere ==
    (Parsed /\ Len(TokensOf(call.dateString)) >= 5)
    => IF TimeMatch(TokensOf(call.dateString)[4]).matched
       THEN call.parsed.error # InvalidTime
       ELSE ~call.parsed.ok /\ call.parsed.error = InvalidTime

(***************************************************************************)
(* C9, C10                                                                  *)
(***************************************************************************)
\* C9: every date string returned by fallbackCalculation, convertTimezone
\* and add12Hours ends with a label of the closed set, and every input
\* whose label is outside the set is rejected.
C9_LabelsStayInClosedSet ==
    /\ (Calculated /\ call.result.success)
         => LastToken(call.result.new_date) \in SUPPORTED_TIMEZONES
    /\ (Converted /\ call.result.ok)
         => LastToken(call.result.value) \in SUPPORTED_TIMEZONES
    /\ (Added12 /\ call.result.ok)
         => LastToken(call.result.value) \in SUPPORTED_TIMEZONES
    /\ (Parsed /\ call.parsed.ok)
         => LastToken(call.dateString) \in SUPPORTED_TIMEZONES

\* the part of C9 that holds: parseDateString accepts no string whose fifth
\* token is outside the set
ParserRejectsUnknownLabels ==
    (Parsed /\ call.parsed.ok)
    => TokensOf(call.dateString)[5] \in SUPPORTED_TIMEZONES

\* C10: the label in the string fallbackCalculation returns equals the
\* label of the input date, for every accepted input and every integer
\* hour count.
C10_AddingHoursKeepsLabel ==
    (Calculated /\ call.result.success /\ ~call.hoursToAdd.nan)
    => LastToken(call.result.new_date) = call.parsed.value.timezone

\* what the calculation does: the label is the value of the timezone
\* select, and the label addHours hands back is the parsed one
LabelComesFromTimezoneSelect ==
    (Calculated /\ call.result.success)
    => /\ LastToken(call.result.new_date) = call.timezone
       /\ addHours(call.parsed.value, call.hoursToAdd).timezone
            = call.parsed.value.timezone

(***************************************************************************)
(* C11                                                                      *)
(***************************************************************************)
\* C11: every value parseDateString returns has its month in 0..11, its
\* hour in 0..23 and its minute in 0..59, whatever hour and minute the
\* accepted time token writes
C11_ParsedFieldsInRange ==
    (Parsed /\ call.parsed.ok) =>
        /\ call.parsed.value.month \in 0..11
        /\ ~call.parsed.value.hour.nan /\ call.parsed.value.hour.v \in 0..23
        /\ ~call.parsed.value.minute.nan /\ call.parsed.value.minute.v \in 0..59

\* what holds: the month is in 0..11, and hour and minute are numbers
\* within what two written digits and the twelve of "pm" can give
ParsedFieldsWithinWritten ==
    (Parsed /\ call.parsed.ok) =>
        /\ call.parsed.value.month \in 0..11
        /\ ~call.parsed.value.hour.nan /\ call.parsed.value.hour.v \in 0..111
        /\ ~call.parsed.value.minute.nan /\ call.parsed.value.minute.v \in 0..99

(***************************************************************************)
(* C12                                                                      *)
(***************************************************************************)
\* the 24-hour form of the written hour h, pm telling the marker
RefHour24(h, pm) ==
    IF pm /\ h # 12 THEN h + 12
    ELSE IF ~pm /\ h = 12 THEN 0
    ELSE h

\* parseDateString gives the hour of a well-shaped time token by the rule
ParserAppliesHourRule ==
    LET parts == TokensOf(call.dateString)
    IN  (Parsed /\ call.parsed.ok /\ WholeTimeShape(parts[4])) =>
            call.parsed.value.hour =
                Num(RefHour24(WrittenHour(parts[4]), WrittenPm(parts[4])))

\* add12Hours gives the hour of a well-shaped time token by the rule
Add12HoursAppliesHourRule ==
    LET parts == SplitWs(call.dateString)
    IN  (Added12 /\ call.result.ok /\ WholeTimeShape(parts[4])) =>
            call.hour = Num(RefHour24(WrittenHour(parts[4]), WrittenPm(parts[4])))

\* C12: parseDateString and add12Hours both turn the written hour h with
\* marker m into h+12 for pm and h # 12, 0 for am and h = 12, h otherwise,
\* the marker read in any letter case
C12_BothApplyHourRule == ParserAppliesHourRule /\ Add12HoursAppliesHourRule

\* what holds of add12Hours: the rule, for markers written in lower case
Add12HoursAppliesHourRuleLowerCase ==
    LET parts == SplitWs(call.dateString)
    IN  (/\ Added12 /\ call.result.ok /\ WholeTimeShape(parts[4])
         /\ parts[4][Len(parts[4])] = "m"
         /\ parts[4][Len(parts[4]) - 1] \in {"a", "p"}) =>
            call.hour = Num(RefHour24(WrittenHour(parts[4]), WrittenPm(parts[4])))

(***************************************************************************)
(* C13                                                                      *)
(***************************************************************************)
\* the time token for the hour H of 0..23 and the minute M of 0..59
RefClockToken(H, M) ==
    NatToString(IF H = 0 THEN 12 ELSE IF H > 12 THEN H - 12 ELSE H)
      \o <<":">> \o (IF M < 10 THEN <<"0">> ELSE <<>>) \o NatToString(M)
      \o (IF H = 0 THEN <<"a", "m">>
          ELSE IF H = 12 THEN <<"p", "m">>
          ELSE IF H > 12 THEN <<"p", "m">>
          ELSE <<"a", "m">>)

\* the string s shows the clock of the Date date: its time token is
\* the one of the date's hour and minute, and the hour it writes is in 1..12
ClockRendered(s, date) ==
    LET token == SplitWs(s)[4]
    IN  /\ token = RefClockToken(getHours(date).v, getMinutes(date).v)
        /\ ParseInt(token).v \in 1..12

\* C13: formatDate and the formatting of add12Hours write the hour H of
\* 0..23 as 12am for 0, 12pm for 12, (H-12)pm above 12 and Ham for 1..11,
\* the minute in two digits, and the written hour is in 1..12
C13_ClockRendering ==
    /\ (Calculated /\ call.result.success /\ ~call.added.nan) =>
           ClockRendered(call.result.new_date, call.added)
    /\ (Added12 /\ call.result.ok /\ ~call.date.nan) =>
           ClockRendered(call.result.value, call.date)

\* midnight with a one-digit minute has been formatted
C13_Witness ==
    /\ Calculated /\ call.result.success /\ ~call.added.nan
    /\ getHours(call.added).v = 0 /\ getMinutes(call.added).v < 10
    /\ ClockRendered(call.result.new_date, call.added)

(***************************************************************************)
(* C16                                                                      *)
(***************************************************************************)
\* the labels the page's selects offer were used in the call
LabelsOffered ==
    \/ Calculated /\ call.timezone \in SUPPORTED_TIMEZONES
    \/ /\ Converted /\ call.sourceTz \in SUPPORTED_TIMEZONES
       /\ call.targetTz \in SUPPORTED_TIMEZONES

\* C16: for an accepted input, an integer hour count and labels of the
\* fixed set, the new_date of a successful fallbackCalculation and the
\* string convertTimezone returns are themselves accepted by parseDateString
C16_OutputsAreAccepted ==
    /\ (/\ Calculated /\ LabelsOffered /\ call.parsed.ok /\ ~call.hoursToAdd.nan
        /\ call.result.success) =>
           parseDateString(call.result.new_date).ok
    /\ (Converted /\ LabelsOffered /\ call.parsed.ok /\ call.result.ok) =>
           parseDateString(call.result.value).ok

\* what holds: the outputs are accepted when, besides, the parsed day and
\* year are numbers
OutputsOfNumericFieldsAreAccepted ==
    /\ (/\ Calculated /\ LabelsOffered /\ call.parsed.ok /\ ~call.hoursToAdd.nan
        /\ call.result.success /\ NumericFields(call.parsed.value)) =>
           parseDateString(call.result.new_date).ok
    /\ (/\ Converted /\ LabelsOffered /\ call.parsed.ok /\ call.result.ok
        /\ NumericFields(call.parsed.value)) =>
           parseDateString(call.result.value).ok

(***************************************************************************)
(* C17                                                                      *)
(***************************************************************************)
\* parseDateString -> addHours(., 12) -> formatDate with the parsed label
Pipeline12(dateString) ==
    LET p == parseDateString(dateString)
    IN  formatDate(addHours(p.value, Num(12)).newDate, p.value.timezone)

\* C17: on every string parseDateString accepts, add12Hours returns the
\* string of the pipeline with 12 hours
C17_Add12HoursEqualsPipeline ==
    (Added12 /\ parseDateString(call.dateString).ok) =>
        call.result = Returned(Pipeline12(call.dateString))

\* what holds: the two agree on accepted strings that begin with their
\* month token and whose time token is, as a whole, h:mm with a lower-case
\* marker
Add12HoursEqualsPipelineOnPlainInputs ==
    LET parts == SplitWs(call.dateString)
    IN  (/\ Added12 /\ parseDateString(call.dateString).ok
         /\ ~IsSpace(call.dateString[1])
         /\ WholeTimeShape(parts[4])
         /\ parts[4][Len(parts[4])] = "m"
         /\ parts[4][Len(parts[4]) - 1] \in {"a", "p"}) =>
            call.result = Returned(Pipeline12(call.dateString))

(***************************************************************************)
(* C18                                                                      *)
(***************************************************************************)
\* the entry without the timestamp addToHistory gave it is the item
EntryOf(entry, item) ==
    /\ DOMAIN entry = DOMAIN item \cup {"timestamp"}
    /\ \A f \in DOMAIN item \ {"timestamp"} : entry[f] = item[f]

\* the history is bounded and lists its entries newest first
HistoryBoundedNewestFirst ==
    /\ Len(appState.history) <= MAX_HISTORY_ITEMS
    /\ \A i \in 1..(Len(appState.history) - 1) :
           appState.history[i].timestamp > appState.history[i + 1].timestamp

\* a step that adds to the history puts the item added at index 0 with the
\* entries of before behind it in their order, all of them if they were
\* fewer than MAX_HISTORY_ITEMS and all but the last, the oldest, otherwise
HistoryStep ==
    (now' = now + 1 /\ call'.op = "addToHistory") =>
        /\ Len(appState'.history) =
               IF Len(appState.history) < MAX_HISTORY_ITEMS
               THEN Len(appState.history) + 1 ELSE MAX_HISTORY_ITEMS
        /\ EntryOf(appState'.history[1], call'.item)
        /\ appState'.history[1].timestamp = now'
        /\ \A i \in 2..Len(appState'.history) :
               appState'.history[i] = appState.history[i - 1]

\* C18: after any sequence of addToHistory calls from any stored history
\* the history has at most MAX_HISTORY_ITEMS entries, the item added last
\* is at index 0, the entries are in reverse order of insertion, and the
\* entries dropped at the bound are the oldest
C18_HistoryBoundedNewestFirst == []HistoryBoundedNewestFirst /\ [][HistoryStep]_vars

\* an item has been added to a history that was full, and another after it
C18_Witness ==
    /\ call.op = "addToHistory"
    /\ now = 2
    /\ Len(appState.history) = MAX_HISTORY_ITEMS
    /\ appState.history[1].timestamp = 2
    /\ appState.history[2].timestamp = 1
    /\ appState.history[MAX_HISTORY_ITEMS].timestamp = 2 - MAX_HISTORY_ITEMS

(***************************************************************************)
(* C15                                                                      *)
(***************************************************************************)
\* the request of the settled calculation id failed: fetch rejected, the
\* status was not OK, or the body could not be read
RequestFailed(id) == settled[id].response.kind # "json"

\* C15: calculateDate never rejects, and when its request fails it returns
\* the result of fallbackCalculation: method 'client-side', and either
\* success with a new_date or, when the date string does not parse, failure
\* with the error
C15_CalculateDateNeverRejects ==
    \A id \in DOMAIN settled :
        LET req   == settled[id].request
            value == settled[id].outcome.value
        IN  /\ settled[id].outcome.fulfilled
            /\ RequestFailed(id) =>
                   /\ value = fallbackCalculation(req.dateString, req.hoursToAdd,
                                                  req.timezone)
                   /\ value.method = "client-side"
                   /\ value.success \in BOOLEAN
                   /\ value.success => parseDateString(req.dateString).ok
                                         /\ value.new_date # <<>>
                   /\ ~value.success => ~parseDateString(req.dateString).ok
                                          /\ value.error # ""

\* a calculation has settled whose response could not be read and whose
\* date string does not parse
C15_Witness ==
    \E id \in DOMAIN settled :
        /\ settled[id].response.kind = "unreadable"
        /\ settled[id].outcome.fulfilled
        /\ settled[id].outcome.value.method = "client-side"
        /\ ~settled[id].outcome.value.success

(***************************************************************************)
(* C19                                                                      *)
(***************************************************************************)
HistoryHoldsSuccesses ==
    \A i \in 1..Len(appState.history) : appState.history[i].success = TRUE

\* a step in which a calculation settles adds its result in front of the
\* history when the result has success true and leaves the history as it
\* was otherwise; a step that starts a calculation leaves it as it was
CalculationStep ==
    /\ (DOMAIN settled' # DOMAIN settled) =>
           LET id      == CHOOSE i \in DOMAIN settled' : i \notin DOMAIN settled
               outcome == settled'[id].outcome
           IN  IF outcome.fulfilled /\ outcome.value.success = TRUE
               THEN /\ Len(appState'.history) = Len(appState.history) + 1
                    /\ EntryOf(appState'.history[1], outcome.value)
                    /\ \A i \in 2..Len(appState'.history) :
                           appState'.history[i] = appState.history[i - 1]
               ELSE appState'.history = appState.history
    /\ (started' # started) => appState'.history = appState.history

\* C19: from an empty history, every entry of the history is a result with
\* success true; a calculation that fails adds nothing and a calculation
\* that succeeds adds exactly one entry
C19_HistoryHoldsSuccessesOnly == []HistoryHoldsSuccesses /\ [][CalculationStep]_vars

\* two calculations have settled, one with success and one without, and
\* the history has the one entry
C19_Witness ==
    /\ DOMAIN settled = {1, 2}
    /\ inflight = {}
    /\ \E i, j \in DOMAIN settled :
           /\ settled[i].outcome.value.success
           /\ ~settled[j].outcome.value.success
    /\ Len(appState.history) = 1
    /\ appState.history[1].success = TRUE

(***************************************************************************)
(* C20                                                                      *)
(***************************************************************************)
\* the overlay is active while a calculation is in flight
LoadingWhileInFlight == (inflight # {}) => loadingActive

\* once all calculations have settled, the one started last is shown
LastStartedShown ==
    (inflight = {} /\ started >= 1) =>
        LET last == settled[started].outcome.value
        IN  /\ appState.currentResult = last
            /\ last.success =>
                   /\ Len(appState.history) >= 1
                   /\ EntryOf(appState.history[1], last)

\* C20: with several calculations in flight, once all have settled
\* currentResult and history[0] are the result of the calculation started
\* last, and the overlay stays active until the last of them has settled
C20_LastStartedWins == LoadingWhileInFlight /\ LastStartedShown

\* what holds: what is shown is the result of some settled calculation
SomeSettledShown ==
    (DOMAIN settled # {}) =>
        \/ \E id \in DOMAIN settled : appState.currentResult = settled[id].outcome.value
        \/ appState.currentResult = Null

(***************************************************************************)
(* C14                                                                      *)
(***************************************************************************)
\* the parsed object passed to addHours is, after the call, what
\* parseDateString returned
ArgumentKept ==
    (Calculated /\ call.parsed.ok) => call.original = call.parsed.value

\* a step in which the engine is called and no calculation settles
EngineCallStep == call' # call /\ settled' = settled

====
